---- MODULE Spec2Model ----
(***************************************************************************)
(* Payroll spreadsheet reconciliation against a Grist document.            *)
(*                                                                         *)
(* The Grist document is the persistent state: the master employee table,  *)
(* the rate log and the period-detail tables.  Every updater run is one    *)
(* action: it fetches a snapshot, classifies the incoming rows and issues  *)
(* its HTTP writes; each HTTP call may succeed or fail.  The last run's    *)
(* local lists (payloads, queues, counters) are kept in `call` so that the *)
(* write plan of a run can be inspected.                                   *)
(*                                                                         *)
(* Cell values are text.  NaN is pandas' missing cell, None is Python's    *)
(* None / JSON null.  Multi-line text (RecordHistory) is the sequence of   *)
(* its lines, "" being the empty sequence.                                 *)
(***************************************************************************)
EXTENDS Integers, Sequences, FiniteSets, TLC

VARIABLES
    master,     \* rows of the main employee table (GRIST_TABLE_NAME)
    rateLog,    \* rows of the rate log table (Emp_RateLog)
    detail,     \* rows of the period-detail tables, by table name
    runs,       \* number of updater runs so far
    call,       \* what the last updater run fetched, queued and sent
    main        \* main's position in the directory of Excel files

vars == <<master, rateLog, detail, runs, call, main>>

--------------------------------------------------------------------------
(* Bounds of the model *)

MaxRuns == 1
MaxBatch == 2
MaxDetailRuns == 2

--------------------------------------------------------------------------
(* Values *)

None == "None"
NaN == "NaN"

\* pd.isna / pd.notna on a scalar cell
isna(v) == v \in {None, NaN}
notna(v) == ~isna(v)

\* float(v): the canonical text of the float, or None when float() raises
\* ValueError.  Callers test notna(v) first.
to_float(v) ==
    CASE v \in {"500", "500.0"} -> "500.0"
      [] v \in {"700", "700.0"} -> "700.0"
      [] v \in {"0", "0.0"} -> "0.0"
      [] v \in {"100", "100.0"} -> "100.0"
      [] OTHER -> None

\* int(v) of a presence cell, None when int() raises
to_int(v) ==
    CASE v \in {"0", "0.0"} -> "0"
      [] v \in {"1", "1.0"} -> "1"
      [] OTHER -> None

Dates == {"2024-03-01", "2024-04-15"}
Times == {"00:00:00", "09:30:00"}

\* Timestamp.normalize() / strftime('%Y-%m-%d') of a timestamp text:
\* the calendar date, the time of day dropped.  None when the text is no
\* timestamp (pd.to_datetime('') is NaT and NaT has no normalize()).
normalize(ts) ==
    IF \E d \in Dates : \E t \in Times : ts = d \o " " \o t
    THEN CHOOSE d \in Dates : \E t \in Times : ts = d \o " " \o t
    ELSE None

\* The sequence s without the elements that fail Test, order kept.
Filter(s, Test(_)) == SelectSeq(s, Test)
Map(s, F(_)) == [i \in 1..Len(s) |-> F(s[i])]
Range(s) == {s[i] : i \in 1..Len(s)}

RECURSIVE Seqs(_, _)
\* All sequences over S of length at most n.
Seqs(S, n) ==
    IF n = 0 THEN {<<>>}
    ELSE LET shorter == Seqs(S, n - 1)
         IN shorter \cup {Append(s, x) : s \in {t \in shorter : Len(t) = n - 1}, x \in S}

--------------------------------------------------------------------------
(* GristUpdater: name splitting *)

\* str.capitalize() on the words that occur in the model's names
capitalize(w) ==
    CASE w \in {"md", "Md", "MD"} -> "Md"
      [] w \in {"md.", "Md.", "MD."} -> "Md."
      [] w \in {"mohd", "Mohd", "MOHD"} -> "Mohd"
      [] w \in {"mohd.", "Mohd.", "MOHD."} -> "Mohd."
      [] w \in {"ali", "Ali", "ALI"} -> "Ali"
      [] w \in {"khan", "Khan"} -> "Khan"
      [] w \in {"ravi", "Ravi"} -> "Ravi"
      [] w \in {"kumar", "Kumar"} -> "Kumar"
      [] w \in {"ghulam", "Ghulam"} -> "Ghulam"
      [] w \in {"abdul", "Abdul"} -> "Abdul"
      [] w \in {"sattar", "Sattar"} -> "Sattar"
      [] w \in {"mustafa", "Mustafa"} -> "Mustafa"
      [] OTHER -> w

\* str.lower() on a first token, as far as the honorific test needs it
lower(w) ==
    CASE w \in {"md", "Md", "MD"} -> "md"
      [] w \in {"md.", "Md.", "MD."} -> "md."
      [] w \in {"mohd", "Mohd", "MOHD"} -> "mohd"
      [] w \in {"mohd.", "Mohd.", "MOHD."} -> "mohd."
      [] OTHER -> w

RECURSIVE join(_)
\* " ".join(words)
join(words) ==
    IF Len(words) = 0 THEN ""
    ELSE IF Len(words) = 1 THEN words[1]
    ELSE words[1] \o " " \o join(Tail(words))

\* A sentence case that capitalizes the first word of a part only
to_sentence_case_first_word(name_part) ==
    IF name_part = <<>> THEN None
    ELSE join(<<capitalize(name_part[1])>> \o Tail(name_part))

\* A name part is handled as the list of its words, the empty list when it
\* is absent; the result is the joined text, or None.
to_sentence_case(name_part) ==
    IF name_part = <<>> THEN None
    ELSE join(Map(name_part, capitalize))

\* A split that joins an honorific to the next token from 3 tokens on
split_name_honorific_from_three(parts) ==
    LET n == Len(parts)
        raw ==
            IF n = 0 THEN <<<<>>, <<>>, <<>>>>
            ELSE IF n = 1 THEN <<SubSeq(parts, 1, 1), <<>>, <<>>>>
            ELSE IF n = 2 THEN <<SubSeq(parts, 1, 1), <<>>, SubSeq(parts, 2, 2)>>
            ELSE IF lower(parts[1]) \in {"md", "mohd", "md.", "mohd."}
                 THEN <<SubSeq(parts, 1, 2), SubSeq(parts, 3, n - 1), SubSeq(parts, n, n)>>
                 ELSE <<SubSeq(parts, 1, 1), SubSeq(parts, 2, n - 1), SubSeq(parts, n, n)>>
    IN <<to_sentence_case(raw[1]), to_sentence_case(raw[2]), to_sentence_case(raw[3])>>

\* _split_name on the whitespace-separated tokens of the cell
split_name(parts) ==
    LET n == Len(parts)
        raw ==
            IF n = 0 THEN <<<<>>, <<>>, <<>>>>
            ELSE IF n = 1 THEN <<SubSeq(parts, 1, 1), <<>>, <<>>>>
            ELSE IF n = 2 THEN <<SubSeq(parts, 1, 1), <<>>, SubSeq(parts, 2, 2)>>
            ELSE IF n = 3 THEN <<SubSeq(parts, 1, 1), SubSeq(parts, 2, 2), SubSeq(parts, 3, 3)>>
            ELSE IF lower(parts[1]) \in {"md", "mohd", "md.", "mohd."} /\ n >= 4
                 THEN <<SubSeq(parts, 1, 2), SubSeq(parts, 3, n - 1), SubSeq(parts, n, n)>>
                 ELSE <<SubSeq(parts, 1, 1), SubSeq(parts, 2, n - 1), SubSeq(parts, n, n)>>
    IN <<to_sentence_case(raw[1]), to_sentence_case(raw[2]), to_sentence_case(raw[3])>>

--------------------------------------------------------------------------
(* The Grist document: the main employee table and the rate log *)

\* A Date column holds a calendar date; the records endpoint returns it as a
\* Unix timestamp, which get_existing_records turns into text:
\* '%Y-%m-%d %H:%M:%S' of midnight, or '' for an empty cell.
fetched_date(v) == IF isna(v) THEN "" ELSE v \o " 00:00:00"

\* GET /tables/<main table>/records as get_existing_records returns it:
\* the rows with DOJ converted, or the empty frame when the request fails.
get_existing_records(table, ok) ==
    IF ok
    THEN Map(table, LAMBDA r : [r EXCEPT !.DOJ = fetched_date(r.DOJ)])
    ELSE <<>>

\* A new row of the main table: the posted fields, the other columns empty.
\* Salary_PerDay is a formula column, Left a toggle that starts unset.
NewMasterRow(id, fields) ==
    [id |-> id,
     SFNo |-> fields["SFNo"],
     Designation |-> fields["Designation"],
     Perm_Temp |-> fields["Perm_Temp"],
     Fixed_Hourly |-> fields["Fixed_Hourly"],
     DOJ |-> fields["DOJ"],
     FirstName |-> fields["FirstName"],
     MiddleName |-> fields["MiddleName"],
     LastName |-> fields["LastName"],
     RecordHistory |-> IF "RecordHistory" \in DOMAIN fields THEN fields["RecordHistory"] ELSE <<>>,
     Left |-> FALSE,
     Salary_PerDay |-> None]

RECURSIVE PostMaster(_, _)
\* POST of one record per request, for the requests that succeeded, in order.
PostMaster(table, payloads) ==
    IF payloads = <<>> THEN table
    ELSE PostMaster(Append(table, NewMasterRow(Len(table) + 1, Head(payloads))), Tail(payloads))

\* One row after a PATCH that names it: the listed columns overwritten.
PatchedRow(r, fields) ==
    [f \in DOMAIN r |-> IF f \in DOMAIN fields THEN fields[f] ELSE r[f]]

\* PATCH /records with a list of {id, fields}: all of it is applied, or none.
PatchMaster(table, updates) ==
    [i \in 1..Len(table) |->
        IF \E u \in Range(updates) : u.id = table[i].id
        THEN PatchedRow(table[i], (CHOOSE u \in Range(updates) : u.id = table[i].id).fields)
        ELSE table[i]]

\* Salary_PerDay is computed by the document from the rate log: the rate of
\* the employee's latest log entry.
DerivedRate(table, entries) ==
    [i \in 1..Len(table) |->
        LET mine == Filter(entries, LAMBDA e : e["SFNo"] = table[i].SFNo)
        IN IF mine = <<>> THEN table[i]
           ELSE [table[i] EXCEPT !.Salary_PerDay = mine[Len(mine)]["NewPerDayRate"]]]

--------------------------------------------------------------------------
(* GristUpdater.compare_and_update: cleaning and mapping of the Excel rows *)

\* Rows with a missing employee number, or the text 'nan', are dropped.
drop_missing_emp_no(excel_data) ==
    Filter(excel_data, LAMBDA r : ~isna(r.EmpNo) /\ r.EmpNo # "nan")

\* drop_duplicates that keeps the first row of every employee number
drop_duplicates_keep_first(excel_data) ==
    LET keep == {i \in 1..Len(excel_data) :
                    \A j \in 1..(i - 1) : excel_data[j].EmpNo # excel_data[i].EmpNo}
        RECURSIVE pick(_)
        pick(i) == IF i > Len(excel_data) THEN <<>>
                   ELSE IF i \in keep THEN <<excel_data[i]>> \o pick(i + 1)
                   ELSE pick(i + 1)
    IN pick(1)

\* drop_duplicates(subset=['Emp No.'], keep='last')
drop_duplicates(excel_data) ==
    LET keep == {i \in 1..Len(excel_data) :
                    \A j \in (i + 1)..Len(excel_data) : excel_data[j].EmpNo # excel_data[i].EmpNo}
        RECURSIVE pick(_)
        pick(i) == IF i > Len(excel_data) THEN <<>>
                   ELSE IF i \in keep THEN <<excel_data[i]>> \o pick(i + 1)
                   ELSE pick(i + 1)
    IN pick(1)

clean_excel_data(excel_data) == drop_duplicates(drop_missing_emp_no(excel_data))

\* '<dd-mm-YYYY> <month_year>: <action>'; the run date is the same for every
\* line of a run and is left out of the text.
generate_record_history_entry(month_year, action, field_name, new_value) ==
    IF action = "Inserted New Record"
    THEN month_year \o ": " \o action
    ELSE month_year \o ": Updated " \o field_name \o " to " \o new_value

\* The Excel row in Grist columns (excel_to_grist_mapping and the name split)
grist_main_fields(excel_row) ==
    LET name == split_name(excel_row.Name)
    IN [SFNo |-> excel_row.EmpNo,
        Designation |-> IF isna(excel_row.Designation) THEN None ELSE excel_row.Designation,
        Perm_Temp |-> IF isna(excel_row.EmpType) THEN None ELSE excel_row.EmpType,
        Fixed_Hourly |-> IF isna(excel_row.SalaryCalc) THEN None ELSE excel_row.SalaryCalc,
        DOJ |-> IF notna(excel_row.DOJ) THEN normalize(excel_row.DOJ) ELSE None,
        FirstName |-> name[1],
        MiddleName |-> name[2],
        LastName |-> name[3]]

\* existing_records[existing_records['SFNo'] == emp_no]
matched_records(existing_records, emp_no) ==
    Filter(existing_records, LAMBDA r : r.SFNo = emp_no)

\* The payload of a new employee: all mapped fields and the first history line
add_payload(month_year, excel_row) ==
    IF month_year # None
    THEN grist_main_fields(excel_row) @@
         [RecordHistory |-> <<generate_record_history_entry(month_year, "Inserted New Record", None, None)>>]
    ELSE grist_main_fields(excel_row)

--------------------------------------------------------------------------
(* GristUpdater.compare_and_update: an employee that exists in the snapshot *)

\* float() of a rate cell, None when the cell is missing or not a number
rate_float(rate) == IF notna(rate) THEN to_float(rate) ELSE None

\* rates_are_different without the branch for a missing stored rate
rates_are_different_both_valid(grist_rate_float, excel_rate_float) ==
    grist_rate_float # None /\ excel_rate_float # None /\ grist_rate_float # excel_rate_float

rates_are_different(grist_rate_float, excel_rate_float) ==
    \/ grist_rate_float # None /\ excel_rate_float # None /\ grist_rate_float # excel_rate_float
    \/ grist_rate_float = None /\ excel_rate_float # None

\* The rate comparison of one Excel row against its matched record
row_rates_differ(excel_row, record) ==
    rates_are_different(rate_float(record.Salary_PerDay), rate_float(excel_row.Rate))

\* Comparison of a text field: str() of both sides, 'None' for a missing one
text_differs(excel_value, grist_value) ==
    /\ notna(excel_value) \/ notna(grist_value)
    /\ (IF notna(excel_value) THEN excel_value ELSE "None")
         # (IF notna(grist_value) THEN grist_value ELSE "None")

\* date_differs on the timestamps as they are, the time of day not dropped
date_differs_with_time(excel_value, grist_value) ==
    (IF notna(excel_value) THEN excel_value ELSE None)
      # (IF notna(grist_value) THEN grist_value ELSE None)

\* Comparison of the date of joining at calendar-date granularity
date_differs(excel_value, grist_value) ==
    (IF notna(excel_value) THEN normalize(excel_value) ELSE None)
      # (IF notna(grist_value) THEN normalize(grist_value) ELSE None)

\* fields_to_compare, in the order of the dictionary
compared_fields(excel_row, record) ==
    Filter(<<"Perm_Temp", "Fixed_Hourly", "DOJ">>,
           LAMBDA f : CASE f = "Perm_Temp" -> text_differs(excel_row.EmpType, record.Perm_Temp)
                        [] f = "Fixed_Hourly" -> text_differs(excel_row.SalaryCalc, record.Fixed_Hourly)
                        [] f = "DOJ" -> date_differs(excel_row.DOJ, record.DOJ))

needs_update(excel_row, record) == compared_fields(excel_row, record) # <<>>

\* updated_fields: the differing fields, then Salary_PerDay on a rate change
updated_fields(excel_row, record) ==
    compared_fields(excel_row, record) \o
        (IF row_rates_differ(excel_row, record) THEN <<"Salary_PerDay">> ELSE <<>>)

\* update_payload_fields with only the fields classified as changed
update_payload_changed_only(month_year, excel_row, record) ==
    LET all == grist_main_fields(excel_row)
        changed == compared_fields(excel_row, record)
    IN [f \in Range(changed) |-> all[f]] @@
       [RecordHistory |->
            Map(updated_fields(excel_row, record), LAMBDA f :
                generate_record_history_entry(month_year, "Updated", f,
                    IF f \in DOMAIN all THEN all[f] ELSE "N/A"))
            \o record.RecordHistory]

\* update_payload_fields without the pops of the name parts and Designation
update_payload_all_fields(month_year, excel_row, record) ==
    grist_main_fields(excel_row) @@
    [RecordHistory |->
        Map(updated_fields(excel_row, record), LAMBDA f :
            generate_record_history_entry(month_year, "Updated", f, "N/A"))
        \o record.RecordHistory]

\* update_payload_fields with the new history lines in place of the old text
update_payload_history_replaced(month_year, excel_row, record) ==
    LET all == grist_main_fields(excel_row)
        kept == DOMAIN all \ {"FirstName", "MiddleName", "LastName", "Designation"}
    IN [f \in kept |-> all[f]] @@
       [RecordHistory |->
            Map(updated_fields(excel_row, record), LAMBDA f :
                generate_record_history_entry(month_year, "Updated", f,
                    IF f \in DOMAIN all THEN all[f] ELSE "N/A"))]

\* update_payload_fields with the Left toggle cleared for an employee of the sheet
update_payload_resets_left(month_year, excel_row, record) ==
    LET all == grist_main_fields(excel_row)
        kept == DOMAIN all \ {"FirstName", "MiddleName", "LastName", "Designation"}
    IN [f \in kept |-> all[f]] @@
       [Left |-> FALSE,
        RecordHistory |->
            Map(updated_fields(excel_row, record), LAMBDA f :
                generate_record_history_entry(month_year, "Updated", f,
                    IF f \in DOMAIN all THEN all[f] ELSE "N/A"))
            \o record.RecordHistory]

\* The fields of the PATCH of an existing employee
update_payload_fields(month_year, excel_row, record) ==
    LET all == grist_main_fields(excel_row)
        kept == DOMAIN all \ {"FirstName", "MiddleName", "LastName", "Designation"}
        fields == [f \in kept |-> all[f]]
        changed == updated_fields(excel_row, record)
        history_entries ==
            Map(changed, LAMBDA f :
                generate_record_history_entry(month_year, "Updated", f,
                    IF f \in DOMAIN all THEN all[f] ELSE "N/A"))
    IN IF month_year # None /\ changed # <<>>
       THEN fields @@ [RecordHistory |-> history_entries \o record.RecordHistory]
       ELSE fields

\* _prepare_rate_log_entry_payload raises ValueError when float(new_rate) fails
prepare_raises(entry) == notna(entry.new_rate) /\ to_float(entry.new_rate) = None

\* _prepare_rate_log_entry_payload for an entry it neither skips nor fails on
prepare_rate_log_entry_payload(month_year, entry) ==
    [SFNo |-> entry.emp_no,
     NewPerDayRate |-> to_float(entry.new_rate),
     Remarks |-> IF entry.is_initial THEN "Initial Rate" ELSE "Rate Change - AutoCode",
     RecordHistory |-> month_year]

\* The PATCH that marks one record of the snapshot as left
left_update(month_year, emp_row) ==
    [id |-> emp_row.id,
     fields |->
        IF month_year # None
        THEN [Left |-> TRUE,
              RecordHistory |->
                <<generate_record_history_entry(month_year, "Updated", "Left", "True")>>
                    \o emp_row.RecordHistory]
        ELSE [Left |-> TRUE]]

--------------------------------------------------------------------------
(* GristUpdater.compare_and_update: one run against the main table *)

\* The status of an HTTP write that is sent only when there is something to send
Sent(sent, ok) == IF ~sent THEN "none" ELSE IF ok THEN "ok" ELSE "failed"

NoCall ==
    [op |-> "none", month_year |-> None, mark_as_left |-> "NO",
     excel_data |-> <<>>, existing_records |-> <<>>, rows |-> <<>>,
     adds |-> <<>>, updates_to_main_table |-> <<>>, patch |-> "none",
     rate_log_entries_to_process |-> <<>>, rate_log_payloads_for_bulk |-> <<>>,
     rate_log |-> "none", left_updates |-> <<>>, left |-> "none",
     new_emp_count |-> 0, updated_emp_count |-> 0, rate_log_count |-> 0,
     marked_as_left_count |-> 0]

\* main is not running: an updater is run on its own
NoMain ==
    [files |-> <<>>, i |-> 1, pc |-> "none", month_year |-> None,
     periods |-> <<>>, log |-> <<>>, raised |-> FALSE]

\* The classification of one cleaned Excel row against the snapshot, with
\* the writes it asks for
classify(existing_records, month_year, excel_row) ==
    LET matched == matched_records(existing_records, excel_row.EmpNo)
    IN IF matched = <<>>
       THEN [emp_no |-> excel_row.EmpNo, new_rate |-> excel_row.Rate, is_new |-> TRUE,
             needs_update |-> FALSE, log_rate |-> notna(excel_row.Rate),
             id |-> 0, fields |-> add_payload(month_year, excel_row)]
       ELSE [emp_no |-> excel_row.EmpNo, new_rate |-> excel_row.Rate, is_new |-> FALSE,
             needs_update |-> needs_update(excel_row, matched[1]),
             log_rate |-> row_rates_differ(excel_row, matched[1]) /\ notna(excel_row.Rate),
             id |-> matched[1].id,
             fields |-> update_payload_fields(month_year, excel_row, matched[1])]

\* A rate entry queued whatever became of the employee's POST
queues_rate_entry_any_outcome(c, failed_adds) == c.log_rate

\* rate_log_entries_to_process.append: for a new employee after the POST
\* succeeded and the rate is present, for an existing one on a rate change
queues_rate_entry(c, failed_adds) ==
    c.log_rate /\ (c.is_new => c.emp_no \notin failed_adds)

\* The outcomes of an HTTP write that is sent only when there is something to send
Outcomes(sent) == IF sent THEN BOOLEAN ELSE {TRUE}

\* One run of compare_and_update.  The run's local values are bound one after
\* the other, each from a one-element set, in the order the code computes them.
compare_and_update(month_year, mark_as_left, excel_data, fetch_ok) ==
    \E existing_records \in {get_existing_records(master, fetch_ok)},
       rows \in {clean_excel_data(excel_data)} :
    \E classified \in {Map(rows, LAMBDA r : classify(existing_records, month_year, r))} :
    \E failed_adds \in SUBSET {c.emp_no : c \in {x \in Range(classified) : x.is_new}} :
    \E \* new employees: one POST each, inside the loop
       adds \in {Map(Filter(classified, LAMBDA c : c.is_new),
                     LAMBDA c : [emp_no |-> c.emp_no, fields |-> c.fields,
                                 ok |-> c.emp_no \notin failed_adds])},
       \* existing employees with a differing compared field
       updates_to_main_table \in
           {Map(Filter(classified, LAMBDA c : ~c.is_new /\ c.needs_update),
                LAMBDA c : [id |-> c.id, fields |-> c.fields])},
       rate_log_entries_to_process \in
           {Map(Filter(classified, LAMBDA c :
                    queues_rate_entry(c, failed_adds)),
                LAMBDA c : [emp_no |-> c.emp_no, new_rate |-> c.new_rate,
                            is_initial |-> c.is_new])} :
    \E \* an exception of the payload preparation ends the run in the handler
       raised \in {\E e \in Range(rate_log_entries_to_process) : prepare_raises(e)} :
    \E rate_log_payloads_for_bulk \in
           {IF raised THEN <<>>
            ELSE Map(Filter(rate_log_entries_to_process, LAMBDA e : notna(e.new_rate)),
                     LAMBDA e : prepare_rate_log_entry_payload(month_year, e))},
       \* employees of the snapshot that are not in the Excel rows, not yet left
       left_updates \in
           {IF ~raised /\ mark_as_left = "YES" /\ existing_records # <<>> /\ rows # <<>>
            THEN Map(Filter(existing_records,
                            LAMBDA e : e.SFNo \notin {r.EmpNo : r \in Range(rows)} /\ ~e.Left),
                     LAMBDA e : left_update(month_year, e))
            ELSE <<>>} :
    \E patch_ok \in Outcomes(updates_to_main_table # <<>>),
       rate_ok \in Outcomes(rate_log_payloads_for_bulk # <<>>),
       left_ok \in Outcomes(left_updates # <<>>) :
    \E added \in {PostMaster(master, Map(Filter(adds, LAMBDA a : a.ok), LAMBDA a : a.fields))} :
    \E patched \in {IF patch_ok THEN PatchMaster(added, updates_to_main_table) ELSE added} :
    \E logged \in {IF rate_ok THEN DerivedRate(patched, rate_log_payloads_for_bulk)
                   ELSE patched} :
        /\ master' = IF left_ok THEN PatchMaster(logged, left_updates) ELSE logged
        /\ rateLog' = IF rate_ok THEN rateLog \o rate_log_payloads_for_bulk ELSE rateLog
        /\ runs' = runs + 1
        /\ call' = [op |-> "master", month_year |-> month_year,
                    mark_as_left |-> mark_as_left,
                    excel_data |-> excel_data, existing_records |-> existing_records,
                    rows |-> rows, adds |-> adds,
                    updates_to_main_table |-> updates_to_main_table,
                    patch |-> Sent(updates_to_main_table # <<>>, patch_ok),
                    rate_log_entries_to_process |-> rate_log_entries_to_process,
                    rate_log_payloads_for_bulk |-> rate_log_payloads_for_bulk,
                    rate_log |-> IF raised THEN "raised"
                                 ELSE Sent(rate_log_payloads_for_bulk # <<>>, rate_ok),
                    left_updates |-> left_updates,
                    left |-> IF raised THEN "raised" ELSE Sent(left_updates # <<>>, left_ok),
                    new_emp_count |-> Len(Filter(adds, LAMBDA a : a.ok)),
                    updated_emp_count |-> IF patch_ok THEN Len(updates_to_main_table) ELSE 0,
                    rate_log_count |-> IF rate_ok THEN Len(rate_log_payloads_for_bulk) ELSE 0,
                    marked_as_left_count |-> Len(left_updates)]
        /\ UNCHANGED detail

--------------------------------------------------------------------------
(* The period-detail tables of the Grist document *)

\* A stored record is its row id and its fields.
EmptyDetail ==
    [HC_Detail |-> <<>>, Emp_Advances |-> <<>>, Emp_Dump_SS |-> <<>>,
     Emp_Dump_PFESIC |-> <<>>, Emp_Dump_NW_PFESIC |-> <<>>]

\* GET /records with filter {"Month_Year": [month_year]}
period_records(table, month_year) ==
    Filter(table, LAMBDA r : r.fields.Month_Year = month_year)

\* POST /records with a list of payloads: all of them are added, or none
PostDetail(table, payloads) ==
    table \o [i \in 1..Len(payloads) |-> [id |-> Len(table) + i, fields |-> payloads[i]]]

\* PATCH /records with a list of {id, fields}
PatchDetail(table, updates) ==
    [i \in 1..Len(table) |->
        IF \E u \in Range(updates) : u.id = table[i].id
        THEN [table[i] EXCEPT !.fields =
                PatchedRow(table[i].fields,
                           (CHOOSE u \in Range(updates) : u.id = table[i].id).fields)]
        ELSE table[i]]

\* One HTTP write of a run: the table, the verb, the records and the outcome
Write(table, verb, records, ok) ==
    [table |-> table, verb |-> verb, records |-> records, ok |-> ok]

\* The writes of a run that were sent, in the order of the run
Writes(planned) == Filter(planned, LAMBDA w : w.records # <<>>)

\* str.strip() of an employee number
strip(v) ==
    CASE v \in {"SF001", " SF001", "SF001 "} -> "SF001"
      [] v \in {"SF002", " SF002", "SF002 "} -> "SF002"
      [] OTHER -> v

\* dropna(subset=['SFNo']), the rows with the text 'nan' removed, and the
\* remaining employee numbers stripped
clean_sfno(excel_data) ==
    Map(Filter(excel_data, LAMBDA r : ~isna(r.SFNo) /\ r.SFNo # "nan"),
        LAMBDA r : [r EXCEPT !.SFNo = strip(r.SFNo)])

\* drop_duplicates(subset=['SFNo'], keep='last'); the Month_Year column a reader
\* stamps holds one value for the whole sheet
drop_duplicates_sfno(excel_data) ==
    Filter([i \in 1..Len(excel_data) |->
                [row |-> excel_data[i],
                 last |-> \A j \in (i + 1)..Len(excel_data) :
                              excel_data[j].SFNo # excel_data[i].SFNo]],
           LAMBDA x : x.last)

\* The cleaned rows of a detail sheet
detail_rows(excel_data) ==
    Map(drop_duplicates_sfno(clean_sfno(excel_data)), LAMBDA x : x.row)

\* An updater that goes on without a column list
no_table_columns_ignored(schema_ok) == FALSE

\* `if not self.table_columns:` after _fetch_table_schema failed
no_table_columns(schema_ok) == ~schema_ok

\* The state after a detail run
DetailDone(op, month_year, excel_data, new_excel_data, schema_ok, gets, exists, existing_records, raised, planned, tables) ==
    /\ detail' = tables
    /\ runs' = runs + 1
    /\ call' = [op |-> op, month_year |-> month_year, excel_data |-> excel_data,
                new_excel_data |-> new_excel_data,
                schema_ok |-> schema_ok, gets |-> gets, exists |-> exists,
                existing_records |-> existing_records, raised |-> raised,
                \* the tables that held a record of the period when the run began
                holding |-> UNION {IF period_records(detail[t], month_year) # <<>>
                                   THEN {t} ELSE {} : t \in DOMAIN detail},
                writes |-> Writes(planned)]
    /\ UNCHANGED <<master, rateLog>>

--------------------------------------------------------------------------
(* HourClockGristUpdater.compare_and_update *)

\* The records of the period, or the empty frame when the request fails
hc_get_existing_records(table, month_year, ok) ==
    IF ok THEN period_records(table, month_year) ELSE <<>>

\* existing_records['SFno'].astype(str) on a non-empty snapshot: the snapshot
\* has the column 'SFNo' and no column 'SFno', so the lookup raises KeyError
hc_sfno_astype_raises(existing_records) == existing_records # <<>>

\* The Grist fields of one Excel row; one day column stands for the P/OT columns
grist_hourclock_fields(month_year, excel_row) ==
    [Month_Year |-> month_year,
     SFNo |-> excel_row.SFNo,
     P_1 |-> IF notna(excel_row.P_1) THEN to_int(excel_row.P_1) ELSE None]

hc_matched_records(existing_records, month_year, emp_no) ==
    Filter(existing_records,
           LAMBDA r : r.fields.SFNo = emp_no /\ r.fields.Month_Year = month_year)

\* The comparison of one field of the existing record with the new value
hc_value_differs(current_value, new_value) ==
    \/ isna(current_value) /\ notna(new_value)
    \/ notna(current_value) /\ isna(new_value)
    \/ notna(current_value) /\ notna(new_value) /\ current_value # new_value

\* update_payload_fields: the compared fields that differ, with their new values
hc_update_payload_fields(fields, current_grist_record) ==
    [f \in {g \in DOMAIN fields \ {"Month_Year", "SFno", "Sr_No"} :
                hc_value_differs(current_grist_record.fields[g], fields[g])}
        |-> fields[f]]

hc_is_new(existing_records, month_year, excel_row) ==
    hc_matched_records(existing_records, month_year, excel_row.SFNo) = <<>>

hc_update(existing_records, month_year, excel_row) ==
    [id |-> hc_matched_records(existing_records, month_year, excel_row.SFNo)[1].id,
     fields |->
        hc_update_payload_fields(
            grist_hourclock_fields(month_year, excel_row),
            hc_matched_records(existing_records, month_year, excel_row.SFNo)[1])]

hc_compare_and_update(month_year, excel_data, schema_ok, fetch_ok) ==
    IF no_table_columns(schema_ok)
    THEN DetailDone("hourclock", month_year, excel_data, <<>>, FALSE, 0, FALSE, <<>>, FALSE,
                    <<>>, detail)
    ELSE
    \E existing_records \in {hc_get_existing_records(detail.HC_Detail, month_year, fetch_ok)} :
    \E raised \in {hc_sfno_astype_raises(existing_records)} :
    \E rows \in {IF raised THEN <<>> ELSE detail_rows(excel_data)} :
    \E records_to_add \in
           {Map(Filter(rows, LAMBDA r : hc_is_new(existing_records, month_year, r)),
                LAMBDA r : grist_hourclock_fields(month_year, r))},
       updates_to_perform \in
           {Filter(Map(Filter(rows, LAMBDA r : ~hc_is_new(existing_records, month_year, r)),
                       LAMBDA r : hc_update(existing_records, month_year, r)),
                   LAMBDA u : DOMAIN u.fields # {})} :
    \E add_ok \in Outcomes(records_to_add # <<>>),
       patch_ok \in Outcomes(updates_to_perform # <<>>) :
    \E added \in {IF add_ok THEN PostDetail(detail.HC_Detail, records_to_add)
                  ELSE detail.HC_Detail} :
        DetailDone("hourclock", month_year, excel_data, <<>>, schema_ok, 1, FALSE, existing_records,
                   raised,
                   <<Write("HC_Detail", "POST", records_to_add, add_ok),
                     Write("HC_Detail", "PATCH", updates_to_perform, patch_ok)>>,
                   [detail EXCEPT !.HC_Detail =
                        IF patch_ok THEN PatchDetail(added, updates_to_perform) ELSE added])

--------------------------------------------------------------------------
(* AdvancesGristUpdater.process_excel_data *)

\* check_month_year_exists: False when the request fails
\* A check that reads a failed request as "the period is loaded"
check_month_year_exists_fail_closed(table, month_year, ok) ==
    ~ok \/ period_records(table, month_year) # <<>>

\* check_month_year_exists: len(records) > 0, False when the request fails
check_month_year_exists(table, month_year, ok) ==
    ok /\ period_records(table, month_year) # <<>>

\* get_existing_sfnos_for_month: the employee numbers of the records of the
\* period, the empty set when the request fails
get_existing_sfnos_for_month(table, month_year, ok) ==
    IF ok THEN {strip(r.fields.SFNo) : r \in Range(period_records(table, month_year))}
    ELSE {}

\* The records that get_existing_sfnos_for_month read the numbers from
adv_fetched_records(table, month_year, ok) ==
    IF ok THEN period_records(table, month_year) ELSE <<>>

\* pd.to_numeric(v, errors='coerce')
to_numeric(v) == IF isna(v) \/ to_float(v) = None THEN NaN ELSE to_float(v)

\* both the advance and the loan amount are NaN or 0
adv_no_amount(excel_row) ==
    /\ isna(to_numeric(excel_row.Advance_Amt)) \/ to_numeric(excel_row.Advance_Amt) = "0.0"
    /\ isna(to_numeric(excel_row.Loan_Amt)) \/ to_numeric(excel_row.Loan_Amt) = "0.0"

adv_grist_fields(month_year, excel_row) ==
    [Month_Year |-> month_year,
     SFNo |-> excel_row.SFNo,
     Advance_Amt |-> IF notna(excel_row.Advance_Amt) THEN to_float(excel_row.Advance_Amt)
                     ELSE None,
     Loan_Amt |-> IF notna(excel_row.Loan_Amt) THEN to_float(excel_row.Loan_Amt) ELSE None]

\* 'SFNo' in excel_data.columns, as far as the rows of the frame show it
has_column(excel_data, col) ==
    \A i \in DOMAIN excel_data : col \in DOMAIN excel_data[i]

adv_process_excel_data(month_year, excel_data, schema_ok, check_ok) ==
    IF no_table_columns(schema_ok)
    THEN DetailDone("advances", month_year, excel_data, <<>>, FALSE, 0, FALSE, <<>>, FALSE,
                    <<>>, detail)
    ELSE IF check_month_year_exists(detail.Emp_Advances, month_year, check_ok)
    THEN DetailDone("advances", month_year, excel_data, <<>>, schema_ok, 1, TRUE, <<>>, FALSE,
                    <<>>, detail)
    ELSE IF ~has_column(excel_data, "SFNo")
    \* the cleaning is skipped, the period's SFNos are fetched, and
    \* excel_row['SFNo'] raises KeyError on the first row: nothing catches it
    THEN DetailDone("advances", month_year, excel_data, <<>>, schema_ok, 2, FALSE, <<>>, TRUE,
                    <<>>, detail)
    ELSE
    \E fetch_ok \in BOOLEAN :
    \E existing_sfnos_for_month \in
           {get_existing_sfnos_for_month(detail.Emp_Advances, month_year, fetch_ok)} :
    \E records_to_add \in
           {Map(Filter(detail_rows(excel_data),
                       LAMBDA r : r.SFNo \notin existing_sfnos_for_month /\ ~adv_no_amount(r)),
                LAMBDA r : adv_grist_fields(month_year, r))} :
    \E insert_ok \in Outcomes(records_to_add # <<>>) :
        DetailDone("advances", month_year, excel_data, <<>>, schema_ok, 2, FALSE,
                   adv_fetched_records(detail.Emp_Advances, month_year, fetch_ok), FALSE,
                   <<Write("Emp_Advances", "POST", records_to_add, insert_ok)>>,
                   [detail EXCEPT !.Emp_Advances =
                        IF insert_ok THEN PostDetail(@, records_to_add) ELSE @])

--------------------------------------------------------------------------
(* SalaryStatementGristUpdater.process_excel_data *)

\* A missing numeric cell is written as 0.0
ss_grist_fields(month_year, excel_row) ==
    [Month_Year |-> month_year,
     SFNo |-> excel_row.SFNo,
     NetSalary_Amt |-> IF notna(excel_row.NetSalary_Amt)
                       THEN to_float(excel_row.NetSalary_Amt) ELSE "0.0"]

ss_process_excel_data(month_year, excel_data, schema_ok, check_ok) ==
    IF no_table_columns(schema_ok)
    THEN DetailDone("salary", month_year, excel_data, <<>>, FALSE, 0, FALSE, <<>>, FALSE,
                    <<>>, detail)
    ELSE IF check_month_year_exists(detail.Emp_Dump_SS, month_year, check_ok)
    THEN DetailDone("salary", month_year, excel_data, <<>>, schema_ok, 1, TRUE, <<>>, FALSE,
                    <<>>, detail)
    ELSE
    \E records_to_add \in
           {Map(detail_rows(excel_data), LAMBDA r : ss_grist_fields(month_year, r))} :
    \E insert_ok \in Outcomes(records_to_add # <<>>) :
        DetailDone("salary", month_year, excel_data, <<>>, schema_ok, 1, FALSE, <<>>, FALSE,
                   <<Write("Emp_Dump_SS", "POST", records_to_add, insert_ok)>>,
                   [detail EXCEPT !.Emp_Dump_SS =
                        IF insert_ok THEN PostDetail(@, records_to_add) ELSE @])

--------------------------------------------------------------------------
(* PFESICGristUpdater.update_grist_tables *)

\* get_existing_records(table_name): every record of the table, or the empty
\* frame when the request fails
pf_get_existing_records(table, ok) == IF ok THEN table ELSE <<>>

\* check_existing_month_year_records looks at the PF-ESIC table only
check_existing_month_year_records(tables, month_year, ok) ==
    \E r \in Range(pf_get_existing_records(tables.Emp_Dump_PFESIC, ok)) :
        r.fields.Month_Year = month_year

\* _prepare_records_payload: every row of the frame, a missing cell as null
prepare_records_payload(df) ==
    Map(df, LAMBDA row : [c \in DOMAIN row |-> IF isna(row[c]) THEN None ELSE row[c]])

update_grist_tables(month_year, pfesic_df, new_pfesic_df, fetch_ok) ==
    IF check_existing_month_year_records(detail, month_year, fetch_ok)
    THEN DetailDone("pfesic", month_year, pfesic_df, new_pfesic_df, TRUE, 1, TRUE,
                    <<>>, FALSE, <<>>, detail)
    ELSE
    \E pfesic_ok \in Outcomes(pfesic_df # <<>>), new_pfesic_ok \in Outcomes(new_pfesic_df # <<>>) :
        DetailDone("pfesic", month_year, pfesic_df, new_pfesic_df, TRUE, 1, FALSE,
                   <<>>, FALSE,
                   <<Write("Emp_Dump_PFESIC", "POST", prepare_records_payload(pfesic_df),
                           pfesic_ok),
                     Write("Emp_Dump_NW_PFESIC", "POST", prepare_records_payload(new_pfesic_df),
                           new_pfesic_ok)>>,
                   [detail EXCEPT
                        !.Emp_Dump_PFESIC =
                            IF pfesic_ok THEN PostDetail(@, prepare_records_payload(pfesic_df))
                            ELSE @,
                        !.Emp_Dump_NW_PFESIC =
                            IF new_pfesic_ok
                            THEN PostDetail(@, prepare_records_payload(new_pfesic_df))
                            ELSE @])

--------------------------------------------------------------------------
(* The runs of the master updater *)

Periods == {"May-25"}
\* The rows of a master sheet: every shape of row for one employee, and rows
\* of a second employee that differ in the rate cell
MasterRows ==
    [EmpNo : {"SF001"},
     Rate : {NaN, "500", "700", "abc"},
     EmpType : {"Temp", "Perm"},
     SalaryCalc : {"Fixed"},
     DOJ : {NaN, "2024-03-01 09:30:00"},
     Name : {<<"ravi", "kumar">>, <<"md", "ali", "khan">>},
     Designation : {"Welder"}]
    \cup
    [EmpNo : {"SF002"},
     Rate : {NaN, "500", "abc"},
     EmpType : {"Temp"},
     SalaryCalc : {"Fixed"},
     DOJ : {NaN},
     Name : {<<"md", "ali", "khan">>},
     Designation : {"Fitter"}]

\* The records the main table may hold before the first run of the model
StoredRows ==
    [id : {1},
     SFNo : {"SF001"},
     Designation : {"Welder"},
     Perm_Temp : {"Temp"},
     Fixed_Hourly : {"Fixed"},
     DOJ : {None, "2024-03-01"},
     FirstName : {"Ravi"},
     MiddleName : {None},
     LastName : {"Kumar"},
     RecordHistory : {<<>>, <<"Apr-25: Inserted New Record">>},
     Left : {FALSE},
     Salary_PerDay : {None, "500.0", "abc"}]
    \cup
    [id : {1},
     SFNo : {"SF001"},
     Designation : {"Welder"},
     Perm_Temp : {"Temp"},
     Fixed_Hourly : {"Fixed"},
     DOJ : {None},
     FirstName : {"Ravi"},
     MiddleName : {None},
     LastName : {"Kumar"},
     RecordHistory : {<<"Apr-25: Updated Left to True">>},
     Left : {TRUE},
     Salary_PerDay : {"500.0"}]

Init ==
    /\ master \in {<<>>} \cup {<<r>> : r \in StoredRows}
    /\ rateLog = <<>>
    /\ detail = EmptyDetail
    /\ runs = 0
    /\ call = NoCall
    /\ main = NoMain

MasterBatches == Seqs(MasterRows, MaxBatch)

MasterRun ==
    /\ runs < MaxRuns
    /\ \E month_year \in Periods, mark_as_left \in {"YES", "NO"},
          excel_data \in MasterBatches, fetch_ok \in BOOLEAN :
           compare_and_update(month_year, mark_as_left, excel_data, fetch_ok)
    /\ UNCHANGED main

Next == MasterRun

Spec == Init /\ [][Next]_vars

--------------------------------------------------------------------------
(* The runs of the period-detail updaters *)

DetailPeriods == {"Apr-25", "May-25"}

\* The rows of an Hour-Clock sheet; a day cell may be empty
HourClockRows ==
    [SFNo : {"SF001", "SF002"}, P_1 : {"1.0", "0.0"}] \cup [SFNo : {"SF001"}, P_1 : {NaN}]

AdvancesRows ==
    {[SFNo |-> "SF001", Advance_Amt |-> NaN, Loan_Amt |-> "0"],
     [SFNo |-> "SF001", Advance_Amt |-> "100", Loan_Amt |-> NaN],
     [SFNo |-> "SF001", Advance_Amt |-> "0", Loan_Amt |-> "100"],
     [SFNo |-> "SF002", Advance_Amt |-> "100", Loan_Amt |-> NaN]}

SalaryRows ==
    {[SFNo |-> "SF001", NetSalary_Amt |-> NaN],
     [SFNo |-> "SF001", NetSalary_Amt |-> "100"],
     [SFNo |-> "SF002", NetSalary_Amt |-> "100"]}

\* The rows of a PF-ESIC sheet carry the period the reader stamped on them
PfesicRows(month_year) ==
    [SFNo : {"SF001", "SF002"}, PF_Amt : {"100"}, Month_Year : {month_year}]

NewPfesicRows(month_year) ==
    [SFNo : {"SF001"}, PF_Amt : {"100"}, Month_Year : {month_year}]

InitDetail ==
    /\ master = <<>>
    /\ rateLog = <<>>
    /\ detail = EmptyDetail
    /\ runs = 0
    /\ call = NoCall
    /\ main = NoMain

HourClockRun ==
    /\ runs < MaxDetailRuns
    /\ \E month_year \in DetailPeriods, excel_data \in Seqs(HourClockRows, MaxBatch),
          schema_ok \in BOOLEAN, fetch_ok \in BOOLEAN :
           hc_compare_and_update(month_year, excel_data, schema_ok, fetch_ok)
    /\ UNCHANGED main

AdvancesRun ==
    /\ runs < MaxDetailRuns
    /\ \E month_year \in DetailPeriods, excel_data \in Seqs(AdvancesRows, MaxBatch),
          schema_ok \in BOOLEAN, check_ok \in BOOLEAN :
           adv_process_excel_data(month_year, excel_data, schema_ok, check_ok)
    /\ UNCHANGED main

SalaryStatementRun ==
    /\ runs < MaxDetailRuns
    /\ \E month_year \in DetailPeriods, excel_data \in Seqs(SalaryRows, MaxBatch),
          schema_ok \in BOOLEAN, check_ok \in BOOLEAN :
           ss_process_excel_data(month_year, excel_data, schema_ok, check_ok)
    /\ UNCHANGED main

PfesicRun ==
    /\ runs < MaxDetailRuns
    /\ \E month_year \in DetailPeriods :
       \E pfesic_df \in Seqs(PfesicRows(month_year), MaxBatch),
          new_pfesic_df \in Seqs(NewPfesicRows(month_year), MaxBatch - 1),
          fetch_ok \in BOOLEAN :
           update_grist_tables(month_year, pfesic_df, new_pfesic_df, fetch_ok)
    /\ UNCHANGED main

NextDetail == HourClockRun \/ AdvancesRun \/ SalaryStatementRun \/ PfesicRun

SpecDetail == InitDetail /\ [][NextDetail]_vars

--------------------------------------------------------------------------
(* The runs on sheets with repeated, blank and 'nan' employee numbers *)

MaxKeyedRuns == 1

\* The employee numbers a reader hands over when it does not filter on the
\* 'SF' prefix: astype(str) turns an empty cell into 'nan', str.strip() a
\* cell of blanks into ''.
ReaderKeys == {"SF001", "SF002", "", "nan"}

KeyedMasterRows ==
    [EmpNo : ReaderKeys,
     Rate : {"500", "700"},
     EmpType : {"Temp", "Perm"},
     SalaryCalc : {"Fixed"},
     DOJ : {NaN},
     Name : {<<"ravi", "kumar">>},
     Designation : {"Welder"}]

KeyedStoredRows ==
    [id : {1},
     SFNo : {"SF001"},
     Designation : {"Welder"},
     Perm_Temp : {"Perm"},
     Fixed_Hourly : {"Fixed"},
     DOJ : {None},
     FirstName : {"Ravi"},
     MiddleName : {None},
     LastName : {"Kumar"},
     RecordHistory : {<<"Apr-25: Inserted New Record">>},
     Left : {FALSE, TRUE},
     Salary_PerDay : {"500.0"}]

KeyedSalaryRows == [SFNo : {"SF001", "", "nan"}, NetSalary_Amt : {"100", "0"}]

InitKeyed ==
    /\ master \in {<<>>} \cup {<<r>> : r \in KeyedStoredRows}
    /\ rateLog = <<>>
    /\ detail = EmptyDetail
    /\ runs = 0
    /\ call = NoCall
    /\ main = NoMain

KeyedMasterRun ==
    /\ runs < MaxKeyedRuns
    /\ \E month_year \in Periods, mark_as_left \in {"YES", "NO"},
          excel_data \in Seqs(KeyedMasterRows, MaxBatch), fetch_ok \in BOOLEAN :
           compare_and_update(month_year, mark_as_left, excel_data, fetch_ok)
    /\ UNCHANGED main

KeyedHourClockRun ==
    /\ runs < MaxKeyedRuns
    /\ \E month_year \in Periods, excel_data \in Seqs(HourClockRows, MaxBatch),
          schema_ok \in BOOLEAN, fetch_ok \in BOOLEAN :
           hc_compare_and_update(month_year, excel_data, schema_ok, fetch_ok)
    /\ UNCHANGED main

KeyedAdvancesRun ==
    /\ runs < MaxKeyedRuns
    /\ \E month_year \in Periods, excel_data \in Seqs(AdvancesRows, MaxBatch),
          schema_ok \in BOOLEAN, check_ok \in BOOLEAN :
           adv_process_excel_data(month_year, excel_data, schema_ok, check_ok)
    /\ UNCHANGED main

KeyedSalaryStatementRun ==
    /\ runs < MaxKeyedRuns
    /\ \E month_year \in Periods, excel_data \in Seqs(KeyedSalaryRows, MaxBatch),
          schema_ok \in BOOLEAN, check_ok \in BOOLEAN :
           ss_process_excel_data(month_year, excel_data, schema_ok, check_ok)
    /\ UNCHANGED main

NextKeyed ==
    KeyedMasterRun \/ KeyedHourClockRun \/ KeyedAdvancesRun \/ KeyedSalaryStatementRun

SpecKeyed == InitKeyed /\ [][NextKeyed]_vars

--------------------------------------------------------------------------
(* The period of a file: _extract_month_year_from_filename *)

\* A file name is kept as the first substring that
\* (\d{1,2}-\d{1,2}-\d{4})|(\d{4}-\d{1,2}-\d{1,2}) matches: the alternative
\* that matched and the three numbers, or no match at all
NoMatch == [shape |-> "none", a |-> 0, b |-> 0, c |-> 0]
short_first(a, b, c) == [shape |-> "dd-dd-dddd", a |-> a, b |-> b, c |-> c]
year_first(a, b, c) == [shape |-> "dddd-dd-dd", a |-> a, b |-> b, c |-> c]

ValueError == [ok |-> FALSE, year |-> 0, month |-> 0, day |-> 0]

days_in_month(month, year) ==
    CASE month \in {1, 3, 5, 7, 8, 10, 12} -> 31
      [] month \in {4, 6, 9, 11} -> 30
      [] OTHER -> IF year % 4 = 0 /\ (year % 100 # 0 \/ year % 400 = 0) THEN 29 ELSE 28

date(year, month, day) ==
    IF month \in 1..12 /\ day >= 1 /\ day <= days_in_month(month, year)
    THEN [ok |-> TRUE, year |-> year, month |-> month, day |-> day]
    ELSE ValueError

\* datetime.strptime(date_str, format): %d and %m take at most two digits,
\* %Y exactly four, so a format fits one shape of substring only
strptime(date_str, format) ==
    CASE format = "%d-%m-%Y" /\ date_str.shape = "dd-dd-dddd" ->
             date(date_str.c, date_str.b, date_str.a)
      [] format = "%m-%d-%Y" /\ date_str.shape = "dd-dd-dddd" ->
             date(date_str.c, date_str.a, date_str.b)
      [] format = "%Y-%m-%d" /\ date_str.shape = "dddd-dd-dd" ->
             date(date_str.a, date_str.b, date_str.c)
      [] OTHER -> ValueError

digit(d) ==
    CASE d = 0 -> "0" [] d = 1 -> "1" [] d = 2 -> "2" [] d = 3 -> "3" [] d = 4 -> "4"
      [] d = 5 -> "5" [] d = 6 -> "6" [] d = 7 -> "7" [] d = 8 -> "8" [] OTHER -> "9"

month_abbr(month) ==
    CASE month = 1 -> "Jan" [] month = 2 -> "Feb" [] month = 3 -> "Mar"
      [] month = 4 -> "Apr" [] month = 5 -> "May" [] month = 6 -> "Jun"
      [] month = 7 -> "Jul" [] month = 8 -> "Aug" [] month = 9 -> "Sep"
      [] month = 10 -> "Oct" [] month = 11 -> "Nov" [] OTHER -> "Dec"

\* date_obj.strftime('%b-%y')
strftime(date_obj) ==
    month_abbr(date_obj.month) \o "-"
        \o digit((date_obj.year % 100) \div 10) \o digit(date_obj.year % 10)

\* ExcelReader._extract_month_year_from_filename: day-month-year only
extract_month_year_from_filename(filename) ==
    IF filename.shape = "none" THEN None
    ELSE IF strptime(filename, "%d-%m-%Y").ok
         THEN strftime(strptime(filename, "%d-%m-%Y"))
         ELSE None

\* A reader that tries month-day-year before day-month-year
detail_extract_month_first(filename) ==
    IF filename.shape = "none" THEN None
    ELSE IF strptime(filename, "%m-%d-%Y").ok
         THEN strftime(strptime(filename, "%m-%d-%Y"))
    ELSE IF strptime(filename, "%d-%m-%Y").ok
         THEN strftime(strptime(filename, "%d-%m-%Y"))
    ELSE IF strptime(filename, "%Y-%m-%d").ok
         THEN strftime(strptime(filename, "%Y-%m-%d"))
    ELSE None

\* The readers of the detail sheets: day-month-year, then month-day-year,
\* then year-month-day
detail_extract_month_year_from_filename(filename) ==
    IF filename.shape = "none" THEN None
    ELSE IF strptime(filename, "%d-%m-%Y").ok
         THEN strftime(strptime(filename, "%d-%m-%Y"))
    ELSE IF strptime(filename, "%m-%d-%Y").ok
         THEN strftime(strptime(filename, "%m-%d-%Y"))
    ELSE IF strptime(filename, "%Y-%m-%d").ok
         THEN strftime(strptime(filename, "%Y-%m-%d"))
    ELSE None

--------------------------------------------------------------------------
(* main: the loop over the Excel files of the directory *)

MaxFiles == 2

\* The file names of the model: "12-05-2025", "05-13-2025", "2025-05-12",
\* "31-02-2025" and a name without a date
FileNames ==
    {short_first(12, 5, 2025), short_first(5, 13, 2025), year_first(2025, 5, 12),
     short_first(31, 2, 2025), NoMatch}

\* A file is its name, what read_sheet gives for the master sheet and what
\* the advances sheet holds ("no_sfno": the sheet has no 'Emp No.' column)
MainFiles ==
    [filename : FileNames, master : {"ok"}, advances : {"ok"}]
    \cup
    [filename : {short_first(12, 5, 2025)},
     master : {"unreadable", "missing_columns"}, advances : {"ok"}]
    \cup
    [filename : {short_first(12, 5, 2025)}, master : {"ok"}, advances : {"no_sfno"}]

MainMasterSheet ==
    <<[EmpNo |-> "SF001", Rate |-> "500", EmpType |-> "Temp", SalaryCalc |-> "Fixed",
       DOJ |-> NaN, Name |-> <<"ravi", "kumar">>, Designation |-> "Welder"]>>

MainHourClockSheet == <<[SFNo |-> "SF001", P_1 |-> "1.0"]>>

MainAdvancesSheet(advances) ==
    IF advances = "no_sfno"
    THEN <<[Advance_Amt |-> "100", Loan_Amt |-> NaN]>>
    ELSE <<[SFNo |-> "SF001", Advance_Amt |-> "100", Loan_Amt |-> NaN]>>

\* PFESICExcelReader stamps its own period on the rows it reads
MainPfesicSheet(filename) ==
    <<[SFNo |-> "SF001", PF_Amt |-> "100",
       Month_Year |-> detail_extract_month_year_from_filename(filename)]>>

MainSalarySheet == <<[SFNo |-> "SF001", NetSalary_Amt |-> "100"]>>

\* MARK_AS_LEFT of the environment
MainMarkAsLeft == "NO"

InitMain ==
    /\ master = <<>>
    /\ rateLog = <<>>
    /\ detail = EmptyDetail
    /\ runs = 0
    /\ call = NoCall
    /\ main \in {[files |-> files, i |-> 1, pc |-> "file", month_year |-> None,
                  periods |-> <<>>, log |-> <<>>, raised |-> FALSE] :
                     files \in Seqs(MainFiles, MaxFiles) \ {<<>>}}

\* A loop that never skips a file
no_month_year_never(month_year) == FALSE

\* `if not month_year:` of the loop
no_month_year(month_year) == month_year = None

\* The for loop takes the next file, or ends after the last one
next_file(m) ==
    [m EXCEPT !.i = @ + 1,
              !.pc = IF m.i + 1 > Len(m.files) THEN "done" ELSE "file",
              !.month_year = None]

\* An updater was called for the file
logged(m, updater) == [m EXCEPT !.log = Append(@, [file |-> m.i, updater |-> updater])]

\* An exception left the loop: main's except clause logs it and main returns
ended(m) == [m EXCEPT !.pc = "done", !.raised = TRUE]

\* A loop that only leaves the master reconciliation out
missing_columns_master_only(m) == [m EXCEPT !.pc = "hourclock"]

\* `if missing_columns: ... continue` of the master sheet
missing_columns(m) == next_file(m)

\* The head of an iteration: the period of the file, or the file is skipped
MainFile ==
    /\ main.pc = "file"
    /\ \E month_year \in {extract_month_year_from_filename(main.files[main.i].filename)} :
           main' = IF no_month_year(month_year)
                   THEN next_file([main EXCEPT !.periods = Append(@, month_year)])
                   ELSE [main EXCEPT !.pc = "master", !.month_year = month_year,
                                     !.periods = Append(@, month_year)]
    /\ UNCHANGED <<master, rateLog, detail, runs, call>>

MainMaster ==
    /\ main.pc = "master"
    /\ CASE main.files[main.i].master = "unreadable" ->
                /\ main' = [main EXCEPT !.pc = "hourclock"]
                /\ UNCHANGED <<master, rateLog, detail, runs, call>>
         [] main.files[main.i].master = "missing_columns" ->
                /\ main' = missing_columns(main)
                /\ UNCHANGED <<master, rateLog, detail, runs, call>>
         [] OTHER ->
                /\ \E fetch_ok \in BOOLEAN :
                       compare_and_update(main.month_year, MainMarkAsLeft,
                                          MainMasterSheet, fetch_ok)
                /\ main' = [logged(main, "master") EXCEPT !.pc = "hourclock"]

MainHourClock ==
    /\ main.pc = "hourclock"
    /\ \E schema_ok \in BOOLEAN, fetch_ok \in BOOLEAN :
           hc_compare_and_update(main.month_year, MainHourClockSheet, schema_ok, fetch_ok)
    /\ main' = [logged(main, "hourclock") EXCEPT !.pc = "advances"]

\* AdvancesGristUpdater.process_excel_data catches nothing: what it raises
\* reaches main's except clause, which is outside the loop
MainAdvances ==
    /\ main.pc = "advances"
    /\ \E schema_ok \in BOOLEAN, check_ok \in BOOLEAN :
           adv_process_excel_data(main.month_year,
                                  MainAdvancesSheet(main.files[main.i].advances),
                                  schema_ok, check_ok)
    /\ main' = IF call'.raised
               THEN ended(logged(main, "advances"))
               ELSE [logged(main, "advances") EXCEPT !.pc = "pfesic"]

MainPfesic ==
    /\ main.pc = "pfesic"
    /\ \E fetch_ok \in BOOLEAN :
           update_grist_tables(main.month_year,
                               MainPfesicSheet(main.files[main.i].filename), <<>>, fetch_ok)
    /\ main' = [logged(main, "pfesic") EXCEPT !.pc = "ot"]

\* OTGristUpdater.compare_and_update: the call is recorded, the OT table is
\* not part of the model
MainOT ==
    /\ main.pc = "ot"
    /\ main' = [logged(main, "ot") EXCEPT !.pc = "salary"]
    /\ UNCHANGED <<master, rateLog, detail, runs, call>>

MainSalary ==
    /\ main.pc = "salary"
    /\ \E schema_ok \in BOOLEAN, check_ok \in BOOLEAN :
           ss_process_excel_data(main.month_year, MainSalarySheet, schema_ok, check_ok)
    /\ main' = next_file(logged(main, "salary"))

NextMain ==
    \/ MainFile \/ MainMaster \/ MainHourClock \/ MainAdvances
    \/ MainPfesic \/ MainOT \/ MainSalary

SpecMain == InitMain /\ [][NextMain]_vars

--------------------------------------------------------------------------
(* _split_name on its own: the names of a bounded vocabulary *)

MaxTokens == 5

\* The tokens of the names: honorifics in several casings and the words of
\* "md ali Khan" and "Md ghulam Abdul sattar Mustafa"
NameTokens ==
    {"md", "Md", "MOHD.", "ghulam", "Abdul", "sattar", "Mustafa", "ali", "Khan"}

InitName ==
    /\ master = <<>>
    /\ rateLog = <<>>
    /\ detail = EmptyDetail
    /\ runs = 0
    /\ main = NoMain
    /\ call \in {[op |-> "split_name", parts |-> parts, done |-> FALSE,
                   result |-> <<None, None, None>>] : parts \in Seqs(NameTokens, MaxTokens)}

\* first_name, middle_name, last_name = self._split_name(excel_full_name)
SplitName ==
    /\ ~call.done
    /\ call' = [call EXCEPT !.done = TRUE, !.result = split_name(call.parts)]
    /\ UNCHANGED <<master, rateLog, detail, runs, main>>

NextName == SplitName

SpecName == InitName /\ [][NextName]_vars

--------------------------------------------------------------------------
(* The readers of one file: the period each of them derives from the name *)

\* The numbers of the date-shaped substrings: days and months in and out
\* of range, and two years
DateNumbers == {0, 1, 3, 5, 12, 13, 29, 30, 31, 32}
DateYears == {2024, 2025}

PeriodFileNames ==
    {short_first(a, b, c) : a \in DateNumbers, b \in DateNumbers, c \in DateYears}
    \cup {year_first(a, b, c) : a \in DateYears, b \in DateNumbers, c \in DateNumbers}
    \cup {NoMatch}

InitPeriod ==
    /\ master = <<>>
    /\ rateLog = <<>>
    /\ detail = EmptyDetail
    /\ runs = 0
    /\ main = NoMain
    /\ call \in {[op |-> "period", filename |-> filename, done |-> FALSE,
                   month_year |-> None, stamped |-> None] : filename \in PeriodFileNames}

\* ExcelReader(file_path) and a detail reader on the same path: the period
\* main hands to the updaters and the period the reader stamps on its rows
ReadPeriods ==
    /\ ~call.done
    /\ call' = [call EXCEPT !.done = TRUE,
                            !.month_year = extract_month_year_from_filename(call.filename),
                            !.stamped = detail_extract_month_year_from_filename(call.filename)]
    /\ UNCHANGED <<master, rateLog, detail, runs, main>>

NextPeriod == ReadPeriods

SpecPeriod == InitPeriod /\ [][NextPeriod]_vars

--------------------------------------------------------------------------
(* Properties of the master table *)

\* The record of the snapshot that a cleaned row is compared with
MatchOf(row) == matched_records(call.existing_records, row.EmpNo)[1]

\* The cleaned rows of the last master run that match a record of the snapshot
MatchedRows ==
    {row \in Range(call.rows) : matched_records(call.existing_records, row.EmpNo) # <<>>}

\* The cleaned rows of the last master run that match no record of the snapshot
NewRows ==
    {row \in Range(call.rows) : matched_records(call.existing_records, row.EmpNo) = <<>>}

\* C1: after any sequence of compare_and_update runs, whatever the batches and
\* whatever the outcome of the fetch and of the writes, the master table holds
\* at most one record per employee identifier (SFNo).
C1_OneRecordPerSFNo ==
    \A i, j \in DOMAIN master : master[i].SFNo = master[j].SFNo => i = j

\* C5: for an existing record with a valid stored rate and an incoming row
\* with the same key whose valid rate differs, all other tracked fields being
\* equal, the run produces exactly one patch for the record, exactly one
\* rate-log entry whose remark is "Rate Change" (the code's text for it,
\* "Rate Change - AutoCode", is taken as that remark), and a history text
\* that is one line longer.
C5_RateOnlyChange ==
    call.op = "master" =>
        \A row \in MatchedRows :
            (/\ rate_float(MatchOf(row).Salary_PerDay) # None
             /\ rate_float(row.Rate) # None
             /\ rate_float(row.Rate) # rate_float(MatchOf(row).Salary_PerDay)
             /\ compared_fields(row, MatchOf(row)) = <<>>) =>
                LET patches == Filter(call.updates_to_main_table,
                                      LAMBDA u : u.id = MatchOf(row).id)
                    entries == Filter(call.rate_log_payloads_for_bulk,
                                      LAMBDA e : e.SFNo = row.EmpNo)
                IN /\ Len(patches) = 1
                   /\ Len(entries) = 1
                   /\ entries[1].Remarks \in {"Rate Change", "Rate Change - AutoCode"}
                   /\ "RecordHistory" \in DOMAIN patches[1].fields
                   /\ Len(patches[1].fields.RecordHistory)
                        = Len(MatchOf(row).RecordHistory) + 1

\* C6: a row that matches no record of the snapshot and carries a non-null
\* rate produces exactly one insert for its key and exactly one rate-log
\* entry whose remark is "Initial Rate".  Stated for the rows whose own rate
\* is a number and whose insert request succeeded.
C6_InsertAndInitialRate ==
    call.op = "master" =>
        \A row \in NewRows :
            (/\ notna(row.Rate)
             /\ to_float(row.Rate) # None
             /\ \E a \in Range(call.adds) : a.emp_no = row.EmpNo /\ a.ok) =>
                /\ Len(Filter(call.adds, LAMBDA a : a.emp_no = row.EmpNo)) = 1
                /\ Len(Filter(call.rate_log_payloads_for_bulk,
                              LAMBDA e : e.SFNo = row.EmpNo /\ e.Remarks = "Initial Rate")) = 1

\* A row and its record agree: the texts are equal, the dates are the same
\* calendar day or both absent, the rates are the same number or both absent.
SameAsStored(row, rec) ==
    /\ row.EmpType = rec.Perm_Temp
    /\ row.SalaryCalc = rec.Fixed_Hourly
    /\ \/ isna(row.DOJ) /\ rec.DOJ = ""
       \/ notna(row.DOJ) /\ rec.DOJ = normalize(row.DOJ) \o " 00:00:00"
    /\ \/ isna(row.Rate) /\ isna(rec.Salary_PerDay)
       \/ /\ notna(row.Rate) /\ notna(rec.Salary_PerDay)
          /\ to_float(row.Rate) # None
          /\ to_float(row.Rate) = to_float(rec.Salary_PerDay)

\* C7: a row whose key matches a record of the snapshot and whose tracked
\* fields and rate are all unchanged produces no insert, no patch and no
\* rate-log entry for that key.
C7_UnchangedRowNoWrite ==
    call.op = "master" =>
        \A row \in MatchedRows :
            SameAsStored(row, MatchOf(row)) =>
                /\ \A a \in Range(call.adds) : a.emp_no # row.EmpNo
                /\ \A u \in Range(call.updates_to_main_table) : u.id # MatchOf(row).id
                /\ \A e \in Range(call.rate_log_entries_to_process) : e.emp_no # row.EmpNo
                /\ \A e \in Range(call.rate_log_payloads_for_bulk) : e.SFNo # row.EmpNo

\* C7 happens: an unchanged row with a rate and a date of joining (whose time
\* of day differs from the stored midnight) was processed.
C7_Witness ==
    /\ call.op = "master"
    /\ call.adds = <<>>
    /\ call.updates_to_main_table = <<>>
    /\ call.rate_log_entries_to_process = <<>>
    /\ \E row \in MatchedRows :
        /\ SameAsStored(row, MatchOf(row))
        /\ notna(row.Rate)
        /\ notna(row.DOJ)

\* C8 as claimed: for a matched record, a valid stored rate with an absent
\* incoming rate never produces a rate-log entry, and an absent or invalid
\* stored rate with a present incoming rate produces one.
C8_PresentRateIsLogged ==
    call.op = "master" =>
        \A row \in MatchedRows :
            LET entries == Filter(call.rate_log_entries_to_process,
                                  LAMBDA e : e.emp_no = row.EmpNo)
            IN /\ (rate_float(MatchOf(row).Salary_PerDay) # None /\ isna(row.Rate))
                    => entries = <<>>
               /\ (rate_float(MatchOf(row).Salary_PerDay) = None /\ notna(row.Rate))
                    => Len(entries) = 1

\* C8: for a matched record, a valid stored rate with an absent incoming rate
\* queues no rate-log entry; an absent or invalid stored rate with an incoming
\* rate that is a number queues exactly one, as a rate change; an incoming
\* rate that is present but not a number queues none.
C8_RateLogAsymmetry ==
    call.op = "master" =>
        \A row \in MatchedRows :
            LET entries == Filter(call.rate_log_entries_to_process,
                                  LAMBDA e : e.emp_no = row.EmpNo)
                stored == MatchOf(row).Salary_PerDay
                stored_valid == notna(stored) /\ to_float(stored) # None
                incoming_valid == notna(row.Rate) /\ to_float(row.Rate) # None
            IN /\ (stored_valid /\ isna(row.Rate)) => entries = <<>>
               /\ (~stored_valid /\ incoming_valid)
                    => entries = <<[emp_no |-> row.EmpNo, new_rate |-> row.Rate,
                                    is_initial |-> FALSE]>>
               /\ (notna(row.Rate) /\ ~incoming_valid) => entries = <<>>

\* C8 happens: a record without a valid stored rate met a row with a rate,
\* and the entry reached the rate log.
C8_Witness ==
    /\ call.op = "master"
    /\ call.rate_log = "ok"
    /\ \E row \in MatchedRows :
        /\ isna(MatchOf(row).Salary_PerDay)
        /\ notna(row.Rate)
        /\ \E e \in Range(rateLog) : e.SFNo = row.EmpNo

\* C9 as claimed: a patch of a changed record contains, besides the history
\* text, only the fields that were classified as changed for that record.
C9_PatchOnlyChangedFields ==
    call.op = "master" =>
        \A row \in MatchedRows :
            \A u \in Range(call.updates_to_main_table) :
                u.id = MatchOf(row).id =>
                    (DOMAIN u.fields) \ {"RecordHistory"}
                        \subseteq Range(updated_fields(row, MatchOf(row)))

\* C9: a patch of a changed record is issued only when a compared field
\* differs, and contains, besides the history text, the key and all three
\* compared fields with the row's values, changed or not: SFNo, Perm_Temp,
\* Fixed_Hourly and DOJ.
C9_PatchCarriesComparedFields ==
    call.op = "master" =>
        \A row \in MatchedRows :
            \A u \in Range(call.updates_to_main_table) :
                u.id = MatchOf(row).id =>
                    /\ \/ row.EmpType # MatchOf(row).Perm_Temp
                       \/ row.SalaryCalc # MatchOf(row).Fixed_Hourly
                       \/ ~(\/ isna(row.DOJ) /\ MatchOf(row).DOJ = ""
                            \/ /\ notna(row.DOJ)
                               /\ MatchOf(row).DOJ = normalize(row.DOJ) \o " 00:00:00")
                    /\ DOMAIN u.fields
                        = {"SFNo", "Perm_Temp", "Fixed_Hourly", "DOJ", "RecordHistory"}
                    /\ u.fields.SFNo = row.EmpNo
                    /\ u.fields.Perm_Temp = row.EmpType
                    /\ u.fields.Fixed_Hourly = row.SalaryCalc
                    /\ u.fields.DOJ = IF isna(row.DOJ) THEN None ELSE normalize(row.DOJ)

\* C9 happens: a record with exactly one differing compared field was patched.
C9_Witness ==
    /\ call.op = "master"
    /\ call.patch = "ok"
    /\ \E row \in MatchedRows :
        /\ Len(compared_fields(row, MatchOf(row))) = 1
        /\ \E u \in Range(call.updates_to_main_table) : u.id = MatchOf(row).id

--------------------------------------------------------------------------
(* Properties of the period-detail tables *)

\* C2: after any sequence of runs of the period-detail updaters, each table
\* holds at most one record per (employee identifier, reporting period) pair,
\* also when one incoming batch repeats an employee identifier.
C2_OneRecordPerEmployeeAndPeriod ==
    \A t \in DOMAIN detail :
        \A i, j \in DOMAIN detail[t] :
            (/\ detail[t][i].fields.SFNo = detail[t][j].fields.SFNo
             /\ detail[t][i].fields.Month_Year = detail[t][j].fields.Month_Year) => i = j

\* C3: a run of the advances, salary statement or PF-ESIC updater issues no
\* insert and no patch to a table that already held a record of the run's
\* period when the run began.
C3_NoWriteToLoadedPeriod ==
    call.op \in {"advances", "salary", "pfesic"} =>
        \A w \in Range(call.writes) : w.table \notin call.holding

\* C4: when the Hour-Clock run fetched existing records of its period, every
\* cleaned incoming row is still classified: a row without a matching record
\* is inserted, a row whose record differs in the day field is patched with
\* that field, and a row without a differing field causes no write.
C4_HourClockClassifiesEveryRow ==
    (call.op = "hourclock" /\ call.schema_ok /\ call.existing_records # <<>>) =>
        \A r \in Range(detail_rows(call.excel_data)) :
            LET m == hc_matched_records(call.existing_records, call.month_year, r.SFNo)
                inserted == \E w \in Range(call.writes) :
                                /\ w.verb = "POST"
                                /\ \E k \in DOMAIN w.records : w.records[k].SFNo = r.SFNo
                patched == \E w \in Range(call.writes) :
                               /\ w.verb = "PATCH"
                               /\ \E k \in DOMAIN w.records :
                                      /\ w.records[k].id = m[1].id
                                      /\ "P_1" \in DOMAIN w.records[k].fields
            IN IF m = <<>> THEN inserted
               ELSE IF m[1].fields.P_1 # to_int(r.P_1) THEN patched /\ ~inserted
               ELSE ~inserted /\ ~patched

--------------------------------------------------------------------------
(* Properties of the cleaning of a batch *)

\* The last row of the master sheet with the employee number k
MasterLast(k) ==
    call.excel_data[CHOOSE i \in DOMAIN call.excel_data :
                        /\ call.excel_data[i].EmpNo = k
                        /\ \A j \in (i + 1)..Len(call.excel_data) :
                                call.excel_data[j].EmpNo # k]

\* The last row of a detail sheet with the employee number k
DetailLast(k) ==
    call.excel_data[CHOOSE i \in DOMAIN call.excel_data :
                        /\ strip(call.excel_data[i].SFNo) = k
                        /\ \A j \in (i + 1)..Len(call.excel_data) :
                                strip(call.excel_data[j].SFNo) # k]

\* C11: when a batch holds several rows with the same business key, the
\* master, Hour-Clock, advances and salary-statement updaters process only the
\* last of them: every insert, patch and rate-log entry of the run carries the
\* values of the last row of its key, and a run has at most one of each per key.
C11_OnlyLastDuplicateProcessed ==
    /\ call.op = "master" =>
        /\ \A a \in Range(call.adds) :
            /\ a.fields.Perm_Temp = MasterLast(a.emp_no).EmpType
            /\ Len(Filter(call.adds, LAMBDA b : b.emp_no = a.emp_no)) = 1
        /\ \A u \in Range(call.updates_to_main_table) :
            /\ u.fields.Perm_Temp = MasterLast(u.fields.SFNo).EmpType
            /\ Len(Filter(call.updates_to_main_table, LAMBDA v : v.id = u.id)) = 1
        /\ \A e \in Range(call.rate_log_entries_to_process) :
            /\ e.new_rate = MasterLast(e.emp_no).Rate
            /\ Len(Filter(call.rate_log_entries_to_process,
                          LAMBDA f : f.emp_no = e.emp_no)) = 1
        /\ \A e \in Range(call.rate_log_payloads_for_bulk) :
            /\ e.NewPerDayRate = to_float(MasterLast(e.SFNo).Rate)
            /\ Len(Filter(call.rate_log_payloads_for_bulk,
                          LAMBDA f : f.SFNo = e.SFNo)) = 1
    /\ call.op \in {"hourclock", "advances", "salary"} =>
        \A w \in Range(call.writes) :
            w.verb = "POST" =>
                \A rec \in Range(w.records) :
                    /\ Len(Filter(w.records, LAMBDA r : r.SFNo = rec.SFNo)) = 1
                    /\ call.op = "hourclock" =>
                            rec.P_1 = to_int(DetailLast(rec.SFNo).P_1)
                    /\ call.op = "advances" =>
                            /\ rec.Advance_Amt = rate_float(DetailLast(rec.SFNo).Advance_Amt)
                            /\ rec.Loan_Amt = rate_float(DetailLast(rec.SFNo).Loan_Amt)
                    /\ call.op = "salary" =>
                            rec.NetSalary_Amt = to_float(DetailLast(rec.SFNo).NetSalary_Amt)

\* C11 happens: a master sheet of two rows with one employee number, a
\* different type and a different rate, was processed, and the employee was
\* inserted and rate-logged.
C11_Witness ==
    /\ call.op = "master"
    /\ call.rate_log = "ok"
    /\ Len(call.excel_data) = 2
    /\ call.excel_data[1].EmpNo = call.excel_data[2].EmpNo
    /\ call.excel_data[1].EmpType # call.excel_data[2].EmpType
    /\ call.excel_data[1].Rate # call.excel_data[2].Rate
    /\ Len(call.adds) = 1
    /\ call.adds[1].ok

\* A business key that is absent, blank or the text 'nan'
NoKey(k) == isna(k) \/ k = "" \/ k = "nan"

\* C12: rows whose business key is absent, blank (empty text) or the text
\* "nan" never produce an insert, a patch or a rate-log entry, in any updater.
C12_NoWriteForMissingKey ==
    /\ call.op = "master" =>
        /\ \A a \in Range(call.adds) : ~NoKey(a.emp_no)
        /\ \A u \in Range(call.updates_to_main_table) : ~NoKey(u.fields.SFNo)
        /\ \A e \in Range(call.rate_log_payloads_for_bulk) : ~NoKey(e.SFNo)
    /\ call.op \in {"hourclock", "advances", "salary"} =>
        \A w \in Range(call.writes) :
            w.verb = "POST" => \A rec \in Range(w.records) : ~NoKey(rec.SFNo)

\* C13: with MarkAsLeft = YES, every record of the snapshot whose identifier
\* is in no row of the incoming batch and whose Left flag is not set is in a
\* patch that sets Left to true and carries one new history line.  Stated for
\* the batches that are non-empty after cleaning.
C13_AbsentEmployeesMarkedLeft ==
    (call.op = "master" /\ call.mark_as_left = "YES" /\ call.rows # <<>>) =>
        \A r \in Range(call.existing_records) :
            (~r.Left /\ \A row \in Range(call.excel_data) : row.EmpNo # r.SFNo) =>
                \E u \in Range(call.left_updates) :
                    /\ u.id = r.id
                    /\ u.fields.Left = TRUE
                    /\ Len(u.fields.RecordHistory) = Len(r.RecordHistory) + 1

--------------------------------------------------------------------------
(* Properties of the history text *)

\* The number of fields of a row that differ from its record: the three
\* compared fields and the rate
ChangedCount(row, rec) ==
    (IF row.EmpType # rec.Perm_Temp THEN 1 ELSE 0)
    + (IF row.SalaryCalc # rec.Fixed_Hourly THEN 1 ELSE 0)
    + (IF \/ isna(row.DOJ) /\ rec.DOJ = ""
          \/ notna(row.DOJ) /\ rec.DOJ = normalize(row.DOJ) \o " 00:00:00"
       THEN 0 ELSE 1)
    + (IF /\ notna(row.Rate) /\ to_float(row.Rate) # None
          /\ \/ isna(rec.Salary_PerDay)
             \/ to_float(rec.Salary_PerDay) # to_float(row.Rate)
       THEN 1 ELSE 0)

\* The text old is the tail of the text new
IsTail(old, new) ==
    /\ Len(old) <= Len(new)
    /\ SubSeq(new, Len(new) - Len(old) + 1, Len(new)) = old

\* C14: history text is append-only.  Every patch that writes RecordHistory
\* writes one new line per changed field, followed by the record's previous
\* history text; the patch that marks a record as left writes one new line
\* followed by the previous text; and after the run the previous history of
\* every record of the snapshot is the tail of its history in the table.
C14_HistoryAppendOnly ==
    call.op = "master" =>
        /\ \A row \in MatchedRows :
            \A u \in Range(call.updates_to_main_table) :
                u.id = MatchOf(row).id =>
                    /\ "RecordHistory" \in DOMAIN u.fields
                    /\ Len(u.fields.RecordHistory)
                        = ChangedCount(row, MatchOf(row)) + Len(MatchOf(row).RecordHistory)
                    /\ IsTail(MatchOf(row).RecordHistory, u.fields.RecordHistory)
        /\ \A r \in Range(call.existing_records) :
            /\ \A u \in Range(call.left_updates) :
                u.id = r.id =>
                    u.fields.RecordHistory
                        = <<call.month_year \o ": Updated Left to True">> \o r.RecordHistory
            /\ \E m \in Range(master) :
                m.id = r.id /\ IsTail(r.RecordHistory, m.RecordHistory)

\* C14 happens: a record with a history text was patched with two or more
\* changed fields and the table holds the longer text.
C14_Witness ==
    /\ call.op = "master"
    /\ call.patch = "ok"
    /\ \E row \in MatchedRows :
        /\ MatchOf(row).RecordHistory # <<>>
        /\ ChangedCount(row, MatchOf(row)) >= 2
        /\ \E m \in Range(master) :
            /\ m.id = MatchOf(row).id
            /\ Len(m.RecordHistory) = Len(MatchOf(row).RecordHistory)
                                        + ChangedCount(row, MatchOf(row))

--------------------------------------------------------------------------
(* Properties of the summary counters *)

\* C15: when an insert or patch batch fails at the remote store, the summary
\* counters of the run for that batch are not increased: the new-employee
\* count is the number of inserts that succeeded, and a failed patch batch,
\* rate-log batch or mark-as-left batch leaves its counter at zero.
C15_FailedBatchNotCounted ==
    call.op = "master" =>
        /\ call.new_emp_count = Len(Filter(call.adds, LAMBDA a : a.ok))
        /\ call.patch = "failed" => call.updated_emp_count = 0
        /\ call.rate_log = "failed" => call.rate_log_count = 0
        /\ call.left = "failed" => call.marked_as_left_count = 0

--------------------------------------------------------------------------
(* Properties of main's loop over the files *)

\* The files whose iteration has begun
Visited == 1..Len(main.periods)

\* C16: an unexpected exception raised while one file is processed is caught
\* within that file's iteration, so main never ends with a file of the
\* directory left unvisited.
C16_EveryFileVisited ==
    main.pc = "done" => Visited = 1..Len(main.files)

\* The stores and the record of the last updater call
stores == <<master, rateLog, detail, runs, call>>

\* C17: when no period can be derived from the name of the file at the head
\* of an iteration, main skips the file without raising: no updater is
\* called for it, nothing is written, and the loop moves on to the next
\* file (or ends normally after the last one).
C17_SkipFileWithoutPeriod ==
    [][(/\ main.pc = "file"
        /\ extract_month_year_from_filename(main.files[main.i].filename) = None)
       => /\ stores' = stores
          /\ main'.log = main.log
          /\ ~main'.raised
          /\ main'.i = main.i + 1
          /\ main'.pc = IF main.i < Len(main.files) THEN "file" ELSE "done"]_vars

\* A file without a period was skipped and an updater ran for a later file
C17_Witness ==
    \E i \in Visited :
        /\ main.periods[i] = None
        /\ \A e \in Range(main.log) : e.file # i
        /\ \E e \in Range(main.log) : e.file > i

\* The three interpretations of a date-shaped substring, in the order of trial
ThreeFormats == <<"%d-%m-%Y", "%m-%d-%Y", "%Y-%m-%d">>

Parsing(filename) == {k \in DOMAIN ThreeFormats : strptime(filename, ThreeFormats[k]).ok}

FirstParsed(filename) ==
    IF Parsing(filename) = {} THEN None
    ELSE LET k == CHOOSE j \in Parsing(filename) : \A l \in Parsing(filename) : j <= l
         IN  strftime(strptime(filename, ThreeFormats[k]))

\* C18: the period main obtains for a file, which the updaters stamp on the
\* file's records, is the first of day-month-year, month-day-year and
\* year-month-day that parses the first date-shaped substring of the name,
\* and is absent only when none of them parses; "12-05-2025" gives "May-25".
C18_PeriodFromThreeFormats ==
    \A i \in Visited :
        /\ main.periods[i] = FirstParsed(main.files[i].filename)
        /\ main.files[i].filename = short_first(12, 5, 2025) => main.periods[i] = "May-25"

--------------------------------------------------------------------------
(* Properties of the name splitting *)

\* The title-cased form of each token of the vocabulary
Titled(t) ==
    CASE t = "md" -> "Md" [] t = "Md" -> "Md" [] t = "MOHD." -> "Mohd."
      [] t = "ghulam" -> "Ghulam" [] t = "Abdul" -> "Abdul" [] t = "sattar" -> "Sattar"
      [] t = "Mustafa" -> "Mustafa" [] t = "ali" -> "Ali" [] t = "Khan" -> "Khan"

RECURSIVE TitledJoin(_)
\* The title-cased tokens joined by single spaces
TitledJoin(tokens) ==
    IF Len(tokens) = 1 THEN Titled(tokens[1])
    ELSE Titled(tokens[1]) \o " " \o TitledJoin(Tail(tokens))

\* md / mohd in any case, with or without a trailing period
Honorific(t) == t \in {"md", "Md", "MOHD."}

Split == call.op = "split_name" /\ call.done

\* C19: a name of at most 3 tokens splits into (absent, absent, absent) for
\* 0 tokens, (t1, absent, absent) for 1, (t1, absent, t2) for 2 and
\* (t1, t2, t3) for 3, every present part title-cased; a 3-token name that
\* starts with an honorific is not joined: "md ali Khan" gives
\* ("Md", "Ali", "Khan").
C19_SplitUpToThreeTokens ==
    (Split /\ Len(call.parts) <= 3) =>
        LET t == call.parts
        IN /\ Len(t) = 0 => call.result = <<None, None, None>>
           /\ Len(t) = 1 => call.result = <<Titled(t[1]), None, None>>
           /\ Len(t) = 2 => call.result = <<Titled(t[1]), None, Titled(t[2])>>
           /\ Len(t) = 3 => call.result = <<Titled(t[1]), Titled(t[2]), Titled(t[3])>>
           /\ t = <<"md", "ali", "Khan">> => call.result = <<"Md", "Ali", "Khan">>

C19_Witness ==
    /\ Split
    /\ call.parts = <<"md", "ali", "Khan">>
    /\ call.result = <<"Md", "Ali", "Khan">>

\* C20: a name of 4 or more tokens has its last token as last name; when
\* the first token is md/mohd the first name is the first two tokens joined
\* and the middle name the remaining interior tokens joined, otherwise the
\* first name is the first token and the middle name all interior tokens
\* joined; every part is title-cased.
C20_SplitFourOrMoreTokens ==
    (Split /\ Len(call.parts) >= 4) =>
        LET t == call.parts
            n == Len(call.parts)
        IN /\ call.result[3] = Titled(t[n])
           /\ Honorific(t[1]) =>
                  /\ call.result[1] = TitledJoin(SubSeq(t, 1, 2))
                  /\ call.result[2] = TitledJoin(SubSeq(t, 3, n - 1))
           /\ ~Honorific(t[1]) =>
                  /\ call.result[1] = Titled(t[1])
                  /\ call.result[2] = TitledJoin(SubSeq(t, 2, n - 1))

C20_Witness ==
    /\ Split
    /\ call.parts = <<"Md", "ghulam", "Abdul", "sattar", "Mustafa">>
    /\ call.result = <<"Md Ghulam", "Abdul Sattar", "Mustafa">>

--------------------------------------------------------------------------
(* Properties of a second run on the same file *)

\* The number of records of every table
Sizes ==
    <<Len(master), Len(rateLog), [t \in DOMAIN detail |-> Len(detail[t])]>>

\* The first of two equal files was processed and every write of its run
\* is in the document: the employee with the logged rate as derived rate,
\* the rate log entry and the period's record in each detail table
FirstRunStored ==
    /\ Len(main.files) = 2 /\ main.files[1] = main.files[2] /\ main.i = 2
    /\ main.files[1].master = "ok" /\ main.files[1].advances = "ok"
    /\ Len(master) >= 1 /\ master[1].SFNo = "SF001" /\ master[1].Salary_PerDay = "500.0"
    /\ Len(rateLog) >= 1
    /\ \A t \in {"HC_Detail", "Emp_Advances", "Emp_Dump_SS", "Emp_Dump_PFESIC"} :
           period_records(detail[t], main.periods[1]) # <<>>

\* C21: reprocessing is idempotent: when the same file is processed twice
\* in succession and every write of the first run succeeded, no step of the
\* second run adds a record to the master table, the rate log or a
\* period-detail table.
C21_ReprocessingAddsNothing ==
    [][FirstRunStored => Sizes' = Sizes]_vars

--------------------------------------------------------------------------
(* Properties of the PF-ESIC run *)

\* C22: update_grist_tables guards each of its two tables separately: it
\* inserts into a table only if that table held no record of the run's
\* period when the run began, so it never inserts into the NEW PF-ESIC
\* table when that table already has records of the period.
C22_GuardPerPfesicTable ==
    call.op = "pfesic" =>
        \A t \in {"Emp_Dump_PFESIC", "Emp_Dump_NW_PFESIC"} :
            t \in call.holding =>
                ~\E k \in DOMAIN call.writes :
                      call.writes[k].table = t /\ call.writes[k].verb = "POST"

--------------------------------------------------------------------------
(* Properties of the write calls of a run *)

\* The insert calls and the patch calls a master run sent to the main table
MainTableInsertCalls == Len(call.adds)
MainTablePatchCalls ==
    (IF call.patch \in {"ok", "failed"} THEN 1 ELSE 0)
        + (IF call.left \in {"ok", "failed"} THEN 1 ELSE 0)

\* C23: within one run all inserts queued for a table go out in a single
\* bulk insert call and all patches in a single bulk patch call: the main
\* table receives at most one insert call and at most one patch call, and
\* its inserts are committed together or not at all.
C23_OneBulkCallPerTable ==
    call.op = "master" =>
        /\ MainTableInsertCalls <= 1
        /\ MainTablePatchCalls <= 1
        /\ \A a, b \in Range(call.adds) : a.ok = b.ok

--------------------------------------------------------------------------
(* Properties of a run without the column list *)

\* C24: when the column list of the target table cannot be fetched, the
\* Hour-Clock, advances and salary-statement updaters abort the table for
\* the run: no record fetch, no insert and no patch is issued, and the
\* tables are as they were.
C24_NoSchemaNoRequests ==
    [][(call'.op \in {"hourclock", "advances", "salary"} /\ ~call'.schema_ok)
          => /\ call'.gets = 0
             /\ call'.writes = <<>>
             /\ call'.existing_records = <<>>
             /\ detail' = detail]_vars

\* The Hour-Clock updater was run without a column list on a sheet with
\* rows while its table held records of the period
C24_Witness ==
    /\ call.op = "hourclock" /\ ~call.schema_ok /\ call.excel_data # <<>>
    /\ "HC_Detail" \in call.holding
    /\ call.gets = 0 /\ call.writes = <<>>

--------------------------------------------------------------------------
(* Properties of the classification of absent values *)

\* C25: in the reconciliation a tracked field whose incoming and stored
\* values are both absent is classified unchanged, and a tracked field with
\* exactly one side absent is classified changed.  For the Hour-Clock run:
\* a row whose day cell and stored day value are both absent causes no patch
\* of that field, and a row with exactly one of them absent is patched with
\* that field.
C25_AbsentValuesClassified ==
    (call.op = "hourclock" /\ call.schema_ok) =>
        \A r \in Range(detail_rows(call.excel_data)) :
            \A m \in Range(hc_matched_records(call.existing_records, call.month_year, r.SFNo)) :
                LET patched == \E w \in Range(call.writes) :
                                   /\ w.verb = "PATCH"
                                   /\ \E k \in DOMAIN w.records :
                                          /\ w.records[k].id = m.id
                                          /\ "P_1" \in DOMAIN w.records[k].fields
                IN /\ (isna(r.P_1) /\ isna(m.fields.P_1)) => ~patched
                   /\ (isna(r.P_1) # isna(m.fields.P_1)) => patched

--------------------------------------------------------------------------
(* Properties of the initial rate entry *)

\* C26: an "Initial Rate" entry is queued for a new employee only after the
\* insert of that employee succeeded; when the insert fails no rate-log
\* entry is queued or written for that employee, and the remaining rows of
\* the batch are still processed.
C26_InitialRateAfterInsert ==
    call.op = "master" =>
        /\ \A e \in Range(call.rate_log_entries_to_process) :
               e.is_initial => \E a \in Range(call.adds) : a.emp_no = e.emp_no /\ a.ok
        /\ \A a \in Range(call.adds) :
               ~a.ok =>
                   /\ \A e \in Range(call.rate_log_entries_to_process) : e.emp_no # a.emp_no
                   /\ \A e \in Range(call.rate_log_payloads_for_bulk) : e.SFNo # a.emp_no
                   /\ \A e \in Range(rateLog) : e.SFNo # a.emp_no
        /\ \A row \in NewRows : \E a \in Range(call.adds) : a.emp_no = row.EmpNo

\* The insert of the first of two new employees failed, the second one was
\* inserted and its initial rate written
C26_Witness ==
    /\ call.op = "master" /\ Len(call.adds) = 2
    /\ ~call.adds[1].ok /\ notna(call.excel_data[1].Rate)
    /\ call.adds[2].ok
    /\ call.rate_log = "ok"
    /\ \E e \in Range(rateLog) : e.SFNo = call.adds[2].emp_no /\ e.Remarks = "Initial Rate"

--------------------------------------------------------------------------
(* Properties of the period check of the advances and salary runs *)

PeriodTable(op) == IF op = "advances" THEN "Emp_Advances" ELSE "Emp_Dump_SS"

Posted(emp_no) ==
    \E w \in Range(call.writes) :
        w.verb = "POST" /\ \E k \in DOMAIN w.records : w.records[k].SFNo = emp_no

\* C27: in the advances and salary-statement updaters a failed period check
\* reads as "no record of the period": the check answers true only when
\* the table holds the period, and a run whose check answered false while
\* the table holds the period goes on to build and send its insert batch.
C27_FailedCheckReadsAsAbsent ==
    (call.op \in {"advances", "salary"} /\ call.schema_ok) =>
        /\ call.exists => PeriodTable(call.op) \in call.holding
        /\ (PeriodTable(call.op) \in call.holding /\ ~call.exists) =>
              IF call.op = "salary"
              THEN \A r \in Range(detail_rows(call.excel_data)) : Posted(r.SFNo)
              ELSE /\ call.gets = 2
                   /\ \A r \in Range(detail_rows(call.excel_data)) :
                          (/\ ~adv_no_amount(r)
                           /\ \A e \in Range(call.existing_records) : e.fields.SFNo # r.SFNo)
                              => Posted(r.SFNo)

\* The check of a salary run failed on a loaded period and the batch was
\* inserted; the same for an advances run whose second fetch failed as well
C27_Witness ==
    /\ call.op \in {"advances", "salary"} /\ call.schema_ok
    /\ PeriodTable(call.op) \in call.holding /\ ~call.exists
    /\ call.writes # <<>> /\ call.writes[1].ok

--------------------------------------------------------------------------
(* Properties of the Left flag *)

\* C28: the Left flag is written only by the mark-departed pass: only with
\* the value true, only when MarkAsLeft is YES, and only for records of the
\* fetched snapshot whose identifier is on no row of the incoming batch; no
\* insert and no field patch contains Left, so the flag of an employee who
\* is marked as left and reappears in a batch is never reset.
C28_LeftOnlyByMarkDeparted ==
    [][call'.op = "master" =>
          /\ \A a \in Range(call'.adds) : "Left" \notin DOMAIN a.fields
          /\ \A u \in Range(call'.updates_to_main_table) : "Left" \notin DOMAIN u.fields
          /\ \A u \in Range(call'.left_updates) :
                 /\ u.fields.Left = TRUE
                 /\ call'.mark_as_left = "YES"
                 /\ \E e \in Range(call'.existing_records) :
                        /\ e.id = u.id
                        /\ \A i \in DOMAIN call'.excel_data : call'.excel_data[i].EmpNo # e.SFNo
          /\ \A i \in DOMAIN master :
                 /\ master[i].Left => master'[i].Left
                 /\ master'[i].Left # master[i].Left =>
                        \E u \in Range(call'.left_updates) : u.id = master[i].id
          /\ \A i \in DOMAIN master' \ DOMAIN master : ~master'[i].Left]_vars

\* An employee marked as left reappeared in a batch, was patched, and is
\* still marked as left
C28_Witness ==
    /\ call.op = "master" /\ call.patch = "ok"
    /\ \E row \in MatchedRows :
           /\ MatchOf(row).Left
           /\ \E u \in Range(call.updates_to_main_table) : u.id = MatchOf(row).id
           /\ \E i \in DOMAIN master : master[i].id = MatchOf(row).id /\ master[i].Left

--------------------------------------------------------------------------
(* Properties of the master sheet check of main *)

\* The updaters that were called for the file
Called(i) == {e.updater : e \in {x \in Range(main.log) : x.file = i}}

--------------------------------------------------------------------------
(* Properties of the periods of the readers *)

\* C30: for every file name for which the master reader yields a period,
\* so that main does not skip the file, a detail reader derives the same
\* period from that name: the Month_Year it stamps on its rows is the
\* period the updater uses.
C30_ReadersAgreeOnPeriod ==
    (call.op = "period" /\ call.done /\ call.month_year # None) =>
        call.stamped = call.month_year

\* A name that parses both as day-month-year and as month-day-year:
\* "05-03-2025" gives "Mar-25" in both readers
C30_Witness ==
    /\ call.op = "period" /\ call.done
    /\ call.filename = short_first(5, 3, 2025)
    /\ call.month_year = "Mar-25" /\ call.stamped = "Mar-25"

====
